---- MODULE Spec2Model ----
(***************************************************************************)
(* Shape-and-structure model of the three network modules of the           *)
(* repository: BasicBlock and ClassifyingResNet (classifying_resnet.py)    *)
(* and ClassGuidedUNet (class_guided_unet.py).                             *)
(*                                                                         *)
(* A tensor is abstracted to its shape, the ordered list of operations     *)
(* that produced it from the input of the forward call, and an error       *)
(* marker: an operation applied to an incompatible shape raises, and the   *)
(* error propagates to the end of the forward call.                        *)
(***************************************************************************)
EXTENDS Integers, Sequences, FiniteSets, TLC

\* block, net, cgu: the constructed module objects (None before construction).
\* blockOut, netOut, cguOut: the tensors of the latest forward call on each.
\* netArgs, cguArgs: the arguments the constructor was called with.
VARIABLES block, blockOut, net, netArgs, netOut, cgu, cguArgs, cguOut

vars == <<block, blockOut, net, netArgs, netOut, cgu, cguArgs, cguOut>>

(***************************************************************************)
(* Bounds of the explored inputs.                                          *)
(***************************************************************************)
MaxChannels == 2
MaxKernel == 3
MaxStride == 3
MaxBatch == 2
MaxSize == 2

Channels == 1..MaxChannels
Kernels == 1..MaxKernel
Strides == 1..MaxStride
Batches == 1..MaxBatch
Sizes == 1..MaxSize

None == [none |-> TRUE]

(***************************************************************************)
(* Tensors.                                                                *)
(***************************************************************************)
Tensor(shape, ops) == [ok |-> TRUE, shape |-> shape, ops |-> ops, err |-> ""]

Raise(e) == [ok |-> FALSE, shape |-> <<>>, ops |-> <<>>, err |-> e]

Input(shape) == Tensor(shape, <<>>)

(***************************************************************************)
(* Layers of torch.nn, as the constructors of the source configure them.   *)
(***************************************************************************)
NewConv2d(cin, cout, k, s, p, bias) ==
    [kind |-> "Conv2d", in_channels |-> cin, out_channels |-> cout,
     kernel_size |-> k, stride |-> s, padding |-> p, bias |-> bias]

NewBatchNorm2d(c) ==
    [kind |-> "BatchNorm2d", in_channels |-> c, out_channels |-> c,
     kernel_size |-> 0, stride |-> 0, padding |-> 0, bias |-> TRUE]

\* Output length of a sliding window of size k, step s, padding p over n cells.
WindowOut(n, k, s, p) == ((n + 2 * p - k) \div s) + 1

Conv2d(l, x) ==
    IF ~x.ok THEN x
    ELSE IF Len(x.shape) # 4 \/ x.shape[2] # l.in_channels
         THEN Raise("channels")
    ELSE IF x.shape[3] + 2 * l.padding < l.kernel_size
            \/ x.shape[4] + 2 * l.padding < l.kernel_size
         THEN Raise("kernel larger than input")
    ELSE Tensor(<<x.shape[1], l.out_channels,
                  WindowOut(x.shape[3], l.kernel_size, l.stride, l.padding),
                  WindowOut(x.shape[4], l.kernel_size, l.stride, l.padding)>>,
                Append(x.ops, "Conv2d"))

\* In training mode batch statistics need more than one value per channel.
BatchNorm2d(l, x, training) ==
    IF ~x.ok THEN x
    ELSE IF Len(x.shape) # 4 \/ x.shape[2] # l.in_channels
         THEN Raise("channels")
    ELSE IF training /\ x.shape[1] * x.shape[3] * x.shape[4] = 1
         THEN Raise("one value per channel")
    ELSE Tensor(x.shape, Append(x.ops, "BatchNorm2d"))

Layer(l, x, training) ==
    IF l.kind = "Conv2d" THEN Conv2d(l, x) ELSE BatchNorm2d(l, x, training)

RECURSIVE Sequential(_, _, _)
Sequential(layers, x, training) ==
    IF layers = <<>> THEN x
    ELSE Sequential(Tail(layers), Layer(Head(layers), x, training), training)

Relu(x) == IF ~x.ok THEN x ELSE Tensor(x.shape, Append(x.ops, "relu"))

\* b can be added into a in place when every dimension of b is that of a or 1.
Broadcastable(a, b) ==
    /\ Len(a) = Len(b)
    /\ \A i \in 1..Len(a) : b[i] = a[i] \/ b[i] = 1

IAdd(out, identity) ==
    IF ~out.ok THEN out
    ELSE IF ~identity.ok THEN identity
    ELSE IF ~Broadcastable(out.shape, identity.shape) THEN Raise("add")
    ELSE Tensor(out.shape, Append(out.ops, "add"))

(***************************************************************************)
(* BasicBlock.                                                             *)
(***************************************************************************)
\* The first convolution built without its padding.
BasicBlockConv1NoPadding(in_channels, out_channels, kernel_size, stride, use_batchnorm) ==
    <<NewConv2d(in_channels, out_channels, kernel_size, stride, 0,
                ~use_batchnorm)>>
    \o (IF use_batchnorm THEN <<NewBatchNorm2d(out_channels)>> ELSE <<>>)

BasicBlockConv1(in_channels, out_channels, kernel_size, stride, use_batchnorm) ==
    LET conv_block1 ==
            <<NewConv2d(in_channels, out_channels, kernel_size, stride,
                        kernel_size \div 2, ~use_batchnorm)>>
            \o (IF use_batchnorm THEN <<NewBatchNorm2d(out_channels)>> ELSE <<>>)
    IN  conv_block1

\* The module built from the list after the normalization was appended to it.
BasicBlockConv2Late(out_channels, kernel_size, use_batchnorm) ==
    <<NewConv2d(out_channels, out_channels, kernel_size, 1,
                kernel_size \div 2, ~use_batchnorm)>>
    \o (IF use_batchnorm THEN <<NewBatchNorm2d(out_channels)>> ELSE <<>>)

\* self.conv2 is built from the list as it is before the normalization is
\* appended; the list after the append is used nowhere.
BasicBlockConv2(out_channels, kernel_size, use_batchnorm) ==
    LET conv_block2 ==
            <<NewConv2d(out_channels, out_channels, kernel_size, 1,
                        kernel_size \div 2, ~use_batchnorm)>>
        conv2 == conv_block2
        conv_block2_after ==
            conv_block2
            \o (IF use_batchnorm THEN <<NewBatchNorm2d(out_channels)>> ELSE <<>>)
    IN  conv2

\* The projection decided on the channel counts alone.
BasicBlockShortcutChannelsOnly(in_channels, out_channels, stride, use_batchnorm) ==
    IF in_channels # out_channels
    THEN <<NewConv2d(in_channels, out_channels, 1, stride, 0, FALSE)>>
         \o (IF use_batchnorm THEN <<NewBatchNorm2d(out_channels)>> ELSE <<>>)
    ELSE <<>>

BasicBlockShortcut(in_channels, out_channels, stride, use_batchnorm) ==
    IF (stride # 1) \/ (in_channels # out_channels)
    THEN <<NewConv2d(in_channels, out_channels, 1, stride, 0, FALSE)>>
         \o (IF use_batchnorm THEN <<NewBatchNorm2d(out_channels)>> ELSE <<>>)
    ELSE <<>>

NewBasicBlock(in_channels, out_channels, kernel_size, stride, use_batchnorm) ==
    [training |-> TRUE,
     in_channels |-> in_channels, out_channels |-> out_channels,
     kernel_size |-> kernel_size, stride |-> stride,
     use_batchnorm |-> use_batchnorm,
     conv1 |-> BasicBlockConv1(in_channels, out_channels, kernel_size, stride,
                               use_batchnorm),
     conv2 |-> BasicBlockConv2(out_channels, kernel_size, use_batchnorm),
     shortcut |-> BasicBlockShortcut(in_channels, out_channels, stride,
                                     use_batchnorm)]

\* Every intermediate tensor of BasicBlock.forward, in the order computed.
BasicBlockTrace(b, x) ==
    LET identity == Sequential(b.shortcut, x, b.training)
        c1 == IF identity.ok THEN Sequential(b.conv1, x, b.training)
              ELSE identity
        r1 == Relu(c1)
        main == Sequential(b.conv2, r1, b.training)
        sum == IAdd(main, identity)
        out == Relu(sum)
    IN  [x |-> x, identity |-> identity, conv1 |-> c1, main |-> main,
         out |-> out]

BasicBlockForward(b, x) == BasicBlockTrace(b, x).out

\* nn.Module.train(mode) / eval() on a block.
BasicBlockTrain(b, mode) == [b EXCEPT !.training = mode]

(***************************************************************************)
(* ClassifyingResNet.                                                      *)
(***************************************************************************)
DefaultKernelSize == 3
StemKernelSize == 7
StemStride == 2
StemPadding == 3
PoolKernelSize == 3
PoolStride == 2
PoolPadding == 1

NewMaxPool2d(k, s, p) == [kernel_size |-> k, stride |-> s, padding |-> p]

MaxPool2d(l, x) ==
    IF ~x.ok THEN x
    ELSE IF x.shape[3] + 2 * l.padding < l.kernel_size
            \/ x.shape[4] + 2 * l.padding < l.kernel_size
         THEN Raise("kernel larger than input")
    ELSE Tensor(<<x.shape[1], x.shape[2],
                  WindowOut(x.shape[3], l.kernel_size, l.stride, l.padding),
                  WindowOut(x.shape[4], l.kernel_size, l.stride, l.padding)>>,
                Append(x.ops, "MaxPool2d"))

\* nn.AdaptiveAvgPool2d((1, 1))
GlobalPool(x) ==
    IF ~x.ok THEN x
    ELSE Tensor(<<x.shape[1], x.shape[2], 1, 1>>, Append(x.ops, "AdaptiveAvgPool2d"))

\* torch.flatten(x, 1)
Flatten(x) ==
    IF ~x.ok THEN x
    ELSE Tensor(<<x.shape[1], x.shape[2] * x.shape[3] * x.shape[4]>>,
                Append(x.ops, "flatten"))

NewLinear(in_features, out_features) ==
    [in_features |-> in_features, out_features |-> out_features]

Linear(l, x) ==
    IF ~x.ok THEN x
    ELSE IF x.shape[Len(x.shape)] # l.in_features THEN Raise("features")
    ELSE Tensor([x.shape EXCEPT ![Len(x.shape)] = l.out_features],
                Append(x.ops, "Linear"))

\* Every block after the first built from the stage's input width.
MakeLayerRepeatsInput(in_channels, out_channels, block_count, stride, use_batchnorm) ==
    <<NewBasicBlock(in_channels, out_channels, DefaultKernelSize, stride,
                    use_batchnorm)>>
    \o [i \in 1..(block_count - 1) |->
            NewBasicBlock(in_channels, out_channels, DefaultKernelSize, stride,
                          use_batchnorm)]

\* _make_layer: one block from in_channels, then range(1, block_count) blocks
\* from out_channels, every one of them with the stage's stride.
MakeLayer(in_channels, out_channels, block_count, stride, use_batchnorm) ==
    <<NewBasicBlock(in_channels, out_channels, DefaultKernelSize, stride,
                    use_batchnorm)>>
    \o [i \in 1..(block_count - 1) |->
            NewBasicBlock(out_channels, out_channels, DefaultKernelSize, stride,
                          use_batchnorm)]

\* The head sized by the first stage's width.
ResNetFcFirstWidth(block_channels, num_classes) ==
    NewLinear(block_channels[1], num_classes)

\* nn.Linear(block_channels[-1], num_classes)
ResNetFc(block_channels, num_classes) ==
    NewLinear(block_channels[Len(block_channels)], num_classes)

\* The constructor indexes [0..3] of the three lists.
ResNetArgsAccepted(a) ==
    /\ Len(a.block_channels) >= 4
    /\ Len(a.num_blocks) >= 4
    /\ Len(a.strides) >= 4

NewClassifyingResNet(a) ==
    [training |-> TRUE,
     use_batchnorm |-> a.use_batchnorm,
     conv_block |->
        <<NewConv2d(a.in_channels, a.in_channels, StemKernelSize, StemStride,
                    StemPadding, ~a.use_batchnorm)>>
        \o (IF a.use_batchnorm THEN <<NewBatchNorm2d(a.in_channels)>> ELSE <<>>),
     max_pool |-> NewMaxPool2d(PoolKernelSize, PoolStride, PoolPadding),
     layer1 |-> MakeLayer(a.in_channels, a.block_channels[1], a.num_blocks[1],
                          a.strides[1], a.use_batchnorm),
     layer2 |-> MakeLayer(a.block_channels[1], a.block_channels[2],
                          a.num_blocks[2], a.strides[2], a.use_batchnorm),
     layer3 |-> MakeLayer(a.block_channels[2], a.block_channels[3],
                          a.num_blocks[3], a.strides[3], a.use_batchnorm),
     layer4 |-> MakeLayer(a.block_channels[3], a.block_channels[4],
                          a.num_blocks[4], a.strides[4], a.use_batchnorm),
     fc |-> ResNetFc(a.block_channels, a.num_classes)]

\* nn.Module.train(mode) / eval(): sets the flag on the module and its children.
ResNetTrain(n, mode) ==
    [n EXCEPT !.training = mode,
              !.layer1 = [i \in DOMAIN @ |-> BasicBlockTrain(@[i], mode)],
              !.layer2 = [i \in DOMAIN @ |-> BasicBlockTrain(@[i], mode)],
              !.layer3 = [i \in DOMAIN @ |-> BasicBlockTrain(@[i], mode)],
              !.layer4 = [i \in DOMAIN @ |-> BasicBlockTrain(@[i], mode)]]

\* The traces of the blocks of one stage, each fed the output of the one before.
RECURSIVE StageTrace(_, _)
StageTrace(layer, x) ==
    IF layer = <<>> THEN <<>>
    ELSE LET t == BasicBlockTrace(Head(layer), x)
         IN  <<t>> \o StageTrace(Tail(layer), t.out)

StageOut(trace) == trace[Len(trace)].out

\* The stem with the activation ahead of the pooling.
StemReluFirst(n, x) ==
    MaxPool2d(n.max_pool, Relu(Sequential(n.conv_block, x, n.training)))

\* The stem as forward runs it: conv_block, then max_pool, then relu.
Stem(n, x) ==
    Relu(MaxPool2d(n.max_pool, Sequential(n.conv_block, x, n.training)))

\* Every intermediate tensor of ClassifyingResNet.forward.
ResNetTrace(n, x) ==
    LET stem == Stem(n, x)
        t1 == StageTrace(n.layer1, stem)
        t2 == StageTrace(n.layer2, StageOut(t1))
        t3 == StageTrace(n.layer3, StageOut(t2))
        t4 == StageTrace(n.layer4, StageOut(t3))
        pooled == GlobalPool(StageOut(t4))
        flat == Flatten(pooled)
    IN  [x |-> x, training |-> n.training, stem |-> stem,
         stages |-> <<t1, t2, t3, t4>>,
         pooled |-> pooled, out |-> Linear(n.fc, flat)]

ResNetForward(n, x) == ResNetTrace(n, x).out

(***************************************************************************)
(* ClassGuidedUNet.  A parameter is an identifier; requires_grad maps the  *)
(* parameters of the module tree to their gradient-tracking flags.  The    *)
(* classifier and the U-Net are supplied by the caller.                    *)
(***************************************************************************)
FEATURE_CHANNELS == 32
ClassifierClasses == 10
Grid == 12

\* for param in self.parameters(): every parameter of the wrapper frozen.
FreezeAll(requires_grad, classifier) ==
    [p \in DOMAIN requires_grad |-> FALSE]

\* for param in self.classifier.parameters(): param.requires_grad = False
Freeze(requires_grad, classifier) ==
    [p \in DOMAIN requires_grad |->
        IF p \in classifier.params THEN FALSE ELSE requires_grad[p]]

\* The projection sized with one factor of 12 only.
ProjectionOneFactor(feature_channels) ==
    NewLinear(ClassifierClasses, feature_channels * Grid)

\* nn.Linear(10, out_features=feature_channels * 12 * 12)
Projection(feature_channels) ==
    NewLinear(ClassifierClasses, feature_channels * Grid * Grid)

\* a.fc_params: the identifiers of the fresh weight and bias of self.fc, which
\* nn.Linear creates with gradient tracking enabled.
NewClassGuidedUNet(a) ==
    LET fc == Projection(a.feature_channels)
        passed == [p \in DOMAIN a.requires_grad \cup a.fc_params |->
                      IF p \in a.fc_params THEN TRUE ELSE a.requires_grad[p]]
    IN  [classifier |-> a.classifier,
         unet |-> a.unet,
         fc |-> fc,
         fc_params |-> a.fc_params,
         requires_grad |-> Freeze(passed, a.classifier)]

RECURSIVE Numel(_)
Numel(shape) == IF shape = <<>> THEN 1 ELSE Head(shape) * Numel(Tail(shape))

\* x.view(-1, c, h, w): the leading dimension is inferred from the element
\* count, which the given dimensions must divide.
View(x, c, h, w) ==
    IF ~x.ok THEN x
    ELSE IF c * h * w = 0 \/ Numel(x.shape) % (c * h * w) # 0
         THEN Raise("view")
    ELSE Tensor(<<Numel(x.shape) \div (c * h * w), c, h, w>>,
                Append(x.ops, "view"))

\* The supplied classifier: a callable from an image batch to (N, num_classes).
ClassifierCall(c, x) ==
    IF ~x.ok THEN x
    ELSE Tensor(<<x.shape[1], c.num_classes>>, Append(x.ops, "classifier"))

\* The supplied U-Net: a callable on (image, conditioning) that checks the
\* conditioning tensor's shape and returns the image unchanged.
UNetCall(u, image, cond) ==
    IF ~image.ok THEN image
    ELSE IF ~cond.ok THEN cond
    ELSE IF cond.shape # <<image.shape[1], u.cond_channels, Grid, Grid>>
         THEN Raise("conditioning shape")
    ELSE image

\* forward with the image variable overwritten by the classifier's output.
ClassGuidedUNetTraceReusesX(m, x) ==
    LET class_out == ClassifierCall(m.classifier, x)
        projected == Linear(m.fc, class_out)
        cond == View(projected, m.fc.out_features \div (Grid * Grid), Grid, Grid)
    IN  [x |-> x, class_in |-> x, class_out |-> class_out,
         projected |-> projected, cond |-> cond, unet_image |-> class_out,
         out |-> UNetCall(m.unet, class_out, cond)]

\* Every intermediate tensor of ClassGuidedUNet.forward, with the arguments of
\* the classifier and U-Net calls.
ClassGuidedUNetTrace(m, x) ==
    LET class_out == ClassifierCall(m.classifier, x)
        projected == Linear(m.fc, class_out)
        cond == View(projected, m.fc.out_features \div (Grid * Grid), Grid, Grid)
    IN  [x |-> x, class_in |-> x, class_out |-> class_out,
         projected |-> projected, cond |-> cond, unet_image |-> x,
         out |-> UNetCall(m.unet, x, cond)]

(***************************************************************************)
(* Specification of a single BasicBlock.                                   *)
(***************************************************************************)
BlockIdle ==
    /\ net = None /\ netArgs = None /\ netOut = None
    /\ cgu = None /\ cguArgs = None /\ cguOut = None

BlockInit ==
    /\ block = None
    /\ blockOut = None
    /\ BlockIdle

BlockConstruct ==
    \E cin \in Channels, cout \in Channels, k \in Kernels, s \in Strides,
       bn \in BOOLEAN :
        /\ block = None
        /\ block' = NewBasicBlock(cin, cout, k, s, bn)
        /\ blockOut' = None
        /\ UNCHANGED <<net, netArgs, netOut, cgu, cguArgs, cguOut>>

BlockTrain ==
    \E mode \in BOOLEAN :
        /\ block # None
        /\ block' = BasicBlockTrain(block, mode)
        /\ UNCHANGED <<blockOut, net, netArgs, netOut, cgu, cguArgs, cguOut>>

BlockForward ==
    \E n \in Batches, c \in Channels, h \in Sizes, w \in Sizes :
        /\ block # None
        /\ blockOut' = BasicBlockTrace(block, Input(<<n, c, h, w>>))
        /\ UNCHANGED <<block, net, netArgs, netOut, cgu, cguArgs, cguOut>>

BlockNext == BlockConstruct \/ BlockTrain \/ BlockForward

BlockSpec == BlockInit /\ [][BlockNext]_vars

HasNorm(layers) == \E i \in 1..Len(layers) : layers[i].kind = "BatchNorm2d"

HasProjection(b) ==
    /\ b.shortcut # <<>>
    /\ b.shortcut[1].kind = "Conv2d"
    /\ b.shortcut[1].kernel_size = 1

NeedsProjection(b) == b.in_channels # b.out_channels \/ b.stride # 1

BothPathsDone == blockOut # None /\ blockOut.identity.ok /\ blockOut.main.ok

\* C2, as stated: for every kernel size, a block with mismatched channels or
\* stride # 1 gives its shortcut path and its main path the same shape.
C2_AnyKernel ==
    (block # None /\ NeedsProjection(block) /\ BothPathsDone)
        => blockOut.identity.shape = blockOut.main.shape

\* C2, amended: for every odd kernel size, a block with mismatched channels or
\* stride # 1 gives its shortcut path and its main path the same shape
\* (whenever shortcut(x) is computed, so is the main path), so the residual
\* addition is between equal shapes.
C2_OddKernel ==
    (block # None /\ NeedsProjection(block) /\ block.kernel_size % 2 = 1
     /\ blockOut # None /\ blockOut.identity.ok)
        => /\ blockOut.main.ok
           /\ blockOut.identity.shape = blockOut.main.shape
           /\ blockOut.out.ok
           /\ blockOut.out.shape = blockOut.main.shape

C2_Witness ==
    /\ block # None /\ NeedsProjection(block) /\ BothPathsDone
    /\ block.kernel_size = 3 /\ block.stride = 2
    /\ block.in_channels # block.out_channels
    /\ blockOut.x.shape[3] = 2 /\ blockOut.x.shape[4] = 1
    /\ blockOut.identity.shape = <<blockOut.x.shape[1], block.out_channels, 1, 1>>
    /\ blockOut.main.shape = blockOut.identity.shape

\* C3: the shortcut holds a 1x1 projection exactly when the channel counts
\* differ or the stride is not 1; otherwise it is the empty sequence and
\* shortcut(x) is x itself, whatever use_batchnorm and kernel_size are.
C3_ShortcutIffMismatch ==
    block # None =>
        /\ HasProjection(block) <=> NeedsProjection(block)
        /\ ~NeedsProjection(block) =>
              /\ block.shortcut = <<>>
              /\ blockOut # None => blockOut.identity = blockOut.x

C3_Witness ==
    /\ block # None /\ blockOut # None
    /\ block.in_channels = block.out_channels /\ block.stride = 1
    /\ block.use_batchnorm /\ block.kernel_size = 2
    /\ block.shortcut = <<>>
    /\ blockOut.x.ok /\ blockOut.identity = blockOut.x

\* C9: the second branch conv2 is the convolution alone, also when
\* use_batchnorm is true, and forward applies no normalization after it;
\* conv1 and a projection shortcut hold a normalization exactly when
\* use_batchnorm is true.
C9_Conv2WithoutNorm ==
    block # None =>
        /\ Len(block.conv2) = 1 /\ block.conv2[1].kind = "Conv2d"
        /\ ~HasNorm(block.conv2)
        /\ HasNorm(block.conv1) <=> block.use_batchnorm
        /\ block.shortcut # <<>> => (HasNorm(block.shortcut) <=> block.use_batchnorm)
        /\ (blockOut # None /\ blockOut.main.ok) =>
              blockOut.main.ops = blockOut.conv1.ops \o <<"relu", "Conv2d">>

C9_Witness ==
    /\ block # None /\ block.use_batchnorm /\ block.shortcut # <<>>
    /\ blockOut # None /\ blockOut.main.ok
    /\ blockOut.conv1.ops = <<"Conv2d", "BatchNorm2d">>
    /\ blockOut.main.ops = <<"Conv2d", "BatchNorm2d", "relu", "Conv2d">>

(***************************************************************************)
(* Specification of a ClassifyingResNet fed STL10-sized batches.           *)
(***************************************************************************)
ImageChannels == 3
ImageSize == 96
DefaultNumClasses == 10

WidthArgs ==
    { [in_channels |-> 3, num_classes |-> DefaultNumClasses,
       block_channels |-> <<16, 32, 64, 128>>],
      [in_channels |-> 3, num_classes |-> 1, block_channels |-> <<3, 3, 3, 3>>],
      [in_channels |-> 1, num_classes |-> DefaultNumClasses,
       block_channels |-> <<16, 32, 64, 128>>],
      [in_channels |-> 3, num_classes |-> DefaultNumClasses,
       block_channels |-> <<16, 32, 64, 128, 256>>],
      [in_channels |-> 3, num_classes |-> DefaultNumClasses,
       block_channels |-> <<16, 32, 64>>] }

NumBlocksArgs == { <<2, 2, 2, 2>>, <<1, 1, 3, 1>> }

StridesArgs == [1..4 -> Strides]

ResNetArgs ==
    { [in_channels |-> w.in_channels, num_classes |-> w.num_classes,
       block_channels |-> w.block_channels, num_blocks |-> nb, strides |-> st,
       use_batchnorm |-> bn] :
        w \in WidthArgs, nb \in NumBlocksArgs, st \in StridesArgs,
        bn \in BOOLEAN }

ResNetIdle ==
    /\ block = None /\ blockOut = None
    /\ cgu = None /\ cguArgs = None /\ cguOut = None

ResNetInit ==
    /\ net = None
    /\ netArgs = None
    /\ netOut = None
    /\ ResNetIdle

ResNetConstruct ==
    \E a \in ResNetArgs :
        /\ net = None
        /\ ResNetArgsAccepted(a)
        /\ net' = NewClassifyingResNet(a)
        /\ netArgs' = a
        /\ netOut' = None
        /\ UNCHANGED <<block, blockOut, cgu, cguArgs, cguOut>>

ResNetSetTraining ==
    \E mode \in BOOLEAN :
        /\ net # None
        /\ net' = ResNetTrain(net, mode)
        /\ UNCHANGED <<netArgs, netOut, block, blockOut, cgu, cguArgs, cguOut>>

ResNetCall ==
    \E n \in Batches :
        /\ net # None
        /\ netOut' = ResNetTrace(net, Input(<<n, ImageChannels, ImageSize, ImageSize>>))
        /\ UNCHANGED <<net, netArgs, block, blockOut, cgu, cguArgs, cguOut>>

ResNetNext == ResNetConstruct \/ ResNetSetTraining \/ ResNetCall

ResNetSpec == ResNetInit /\ [][ResNetNext]_vars

Positive(seq) == \A i \in 1..Len(seq) : seq[i] >= 1

\* A configuration the forward pass on a 3-channel image is specified for.
ValidConfig(a) ==
    /\ a.in_channels = ImageChannels
    /\ a.num_classes >= 1
    /\ Len(a.block_channels) = 4 /\ Positive(a.block_channels)
    /\ Len(a.num_blocks) = 4 /\ Positive(a.num_blocks)
    /\ Len(a.strides) = 4 /\ Positive(a.strides)

\* <<stage, index>> of every block the pass ran.
BlockPositions(o) ==
    UNION { { <<i, j>> : j \in 1..Len(o.stages[i]) } : i \in 1..Len(o.stages) }

SpatialOk(t) == t.ok /\ t.shape[3] >= 1 /\ t.shape[4] >= 1

\* Every tensor of the pass exists with spatial size >= 1, and every residual
\* addition is between equal shapes.
ShapesSound(o) ==
    /\ SpatialOk(o.stem)
    /\ \A p \in BlockPositions(o) :
         LET t == o.stages[p[1]][p[2]]
         IN  /\ SpatialOk(t.identity) /\ SpatialOk(t.conv1)
             /\ SpatialOk(t.main) /\ SpatialOk(t.out)
             /\ t.identity.shape = t.main.shape

Returned(o) ==
    /\ o.out.ok
    /\ o.out.shape = <<o.x.shape[1], netArgs.num_classes>>

\* C1, as stated: for every valid configuration and every batch size N >= 1
\* forward on (N, 3, 96, 96) returns a tensor of shape (N, num_classes), with
\* every intermediate spatial size >= 1 and every residual addition
\* shape-compatible.
C1_EveryBatch ==
    (netOut # None /\ ValidConfig(netArgs)) =>
        Returned(netOut) /\ ShapesSound(netOut)

\* C1, amended: the same holds for N >= 2, and for N = 1 when use_batchnorm
\* is false or the module is in evaluation mode; the only failure of a valid
\* configuration is a normalization layer in training mode given one value
\* per channel (N = 1 and a 1x1 feature map).
C1_UnlessSingleValueNorm ==
    (netOut # None /\ ValidConfig(netArgs)) =>
        /\ (netOut.x.shape[1] >= 2 \/ ~netArgs.use_batchnorm \/ ~netOut.training)
              => Returned(netOut) /\ ShapesSound(netOut)
        /\ ~netOut.out.ok => netOut.out.err = "one value per channel"
        /\ netOut.out.ok => Returned(netOut) /\ ShapesSound(netOut)

C1_Witness ==
    /\ netOut # None /\ ValidConfig(netArgs)
    /\ netArgs.use_batchnorm /\ ~netOut.training
    /\ netArgs.strides = <<3, 3, 1, 3>> /\ netArgs.num_blocks = <<1, 1, 3, 1>>
    /\ netArgs.block_channels = <<16, 32, 64, 128>>
    /\ netOut.x.shape = <<1, 3, 96, 96>>
    /\ netOut.stem.shape = <<1, 3, 24, 24>>
    /\ StageOut(netOut.stages[4]).shape = <<1, 128, 1, 1>>
    /\ netOut.out.shape = <<1, 10>>

\* C7: in every stage only the first block may change channel count or
\* spatial resolution; the 2nd and later blocks map (N, out_channels, H, W)
\* to the same shape, whatever the stage's stride.
C7_LaterBlocksPreserveShape ==
    netOut # None =>
        \A p \in BlockPositions(netOut) :
            LET t == netOut.stages[p[1]][p[2]]
            IN  (p[2] >= 2 /\ t.x.ok /\ t.out.ok) => t.out.shape = t.x.shape

StemOps(bn) ==
    <<"Conv2d">> \o (IF bn THEN <<"BatchNorm2d">> ELSE <<>>)

FirstBlockInput(o) == o.stages[1][1].x

\* C8, as stated: the stem runs convolution (and normalization), then ReLU,
\* then the max-pool, and only then the four stages.
C8_ReluBeforePool ==
    (netOut # None /\ netOut.stem.ok) =>
        /\ netOut.stem.ops = StemOps(net.use_batchnorm) \o <<"relu", "MaxPool2d">>
        /\ FirstBlockInput(netOut) = netOut.stem

\* C8, amended: the stem runs convolution (and normalization), then the
\* max-pool, then ReLU, and only then the four stages.
C8_PoolBeforeRelu ==
    (netOut # None /\ netOut.stem.ok) =>
        /\ netOut.stem.ops = StemOps(net.use_batchnorm) \o <<"MaxPool2d", "relu">>
        /\ FirstBlockInput(netOut) = netOut.stem

C8_Witness ==
    /\ netOut # None /\ netOut.stem.ok /\ net.use_batchnorm
    /\ netOut.stem.ops = <<"Conv2d", "BatchNorm2d", "MaxPool2d", "relu">>
    /\ netOut.stages[1][1].conv1.ok
    /\ netOut.out.ok

StemWidth(n) == n.conv_block[Len(n.conv_block)].out_channels

StageIn(layer) == layer[1].in_channels

StageWidth(layer) == layer[Len(layer)].out_channels

ChannelsChain(n) ==
    /\ StageIn(n.layer1) = StemWidth(n)
    /\ StageIn(n.layer2) = StageWidth(n.layer1)
    /\ StageIn(n.layer3) = StageWidth(n.layer2)
    /\ StageIn(n.layer4) = StageWidth(n.layer3)
    /\ n.fc.in_features = StageWidth(n.layer4)

\* C10, as stated: for every configuration the constructor accepts, each
\* component's declared input width is the width its predecessor produces,
\* from the stem to the final linear layer.
C10_ChainForAccepted == net # None => ChannelsChain(net)

\* C10, amended: the same for every accepted configuration whose
\* block_channels has exactly 4 entries.
C10_ChainForFourWidths ==
    (net # None /\ Len(netArgs.block_channels) = 4) => ChannelsChain(net)

C10_Witness ==
    /\ net # None /\ netArgs.in_channels = 1
    /\ netArgs.block_channels = <<16, 32, 64, 128>>
    /\ netArgs.num_blocks = <<1, 1, 3, 1>>
    /\ StemWidth(net) = 1 /\ StageIn(net.layer1) = 1
    /\ StageWidth(net.layer3) = 64 /\ StageIn(net.layer4) = 64
    /\ net.fc.in_features = 128

(***************************************************************************)
(* Specification of a ClassGuidedUNet built from caller-supplied modules.  *)
(***************************************************************************)
MaxParams == 2
MaxFeature == 2

ParamIds == 1..MaxParams
FcParams == { MaxParams + 1, MaxParams + 2 }
FeatureArgs == (1..MaxFeature) \cup { FEATURE_CHANNELS }
ClassifierWidths == { ClassifierClasses, 2 }

GuidedArgs ==
    UNION { { [classifier |-> [params |-> cp, num_classes |-> nc],
               unet |-> [params |-> up, cond_channels |-> uc],
               feature_channels |-> f,
               fc_params |-> FcParams,
               requires_grad |-> g] :
                g \in [cp \cup up -> BOOLEAN], nc \in ClassifierWidths,
                uc \in FeatureArgs, f \in FeatureArgs } :
            cp \in SUBSET ParamIds, up \in SUBSET ParamIds }

GuidedIdle ==
    /\ block = None /\ blockOut = None
    /\ net = None /\ netArgs = None /\ netOut = None

GuidedInit ==
    /\ cgu = None
    /\ cguArgs = None
    /\ cguOut = None
    /\ GuidedIdle

GuidedConstruct ==
    \E a \in GuidedArgs :
        /\ cgu = None
        /\ cgu' = NewClassGuidedUNet(a)
        /\ cguArgs' = a
        /\ cguOut' = None
        /\ UNCHANGED <<block, blockOut, net, netArgs, netOut>>

GuidedCall ==
    \E n \in Batches :
        /\ cgu # None
        /\ cguOut' = ClassGuidedUNetTrace(cgu, Input(<<n, ImageChannels, ImageSize, ImageSize>>))
        /\ UNCHANGED <<cgu, cguArgs, block, blockOut, net, netArgs, netOut>>

GuidedNext == GuidedConstruct \/ GuidedCall

GuidedSpec == GuidedInit /\ [][GuidedNext]_vars

ClassifierParams == cgu.classifier.params

Frozen(ps) == \A p \in ps : ~cgu.requires_grad[p]

Trainable(ps) == \A p \in ps : cgu.requires_grad[p]

\* C4, as stated: after construction from any classifier and U-Net, whatever
\* flags their parameters carried, and after any number of forward calls,
\* every classifier parameter is frozen and every parameter of the U-Net and
\* of fc is trainable.
C4_UNetAlwaysTrainable ==
    cgu # None =>
        /\ Frozen(ClassifierParams)
        /\ Trainable(cgu.unet.params \cup cgu.fc_params)

\* C4, amended: every classifier parameter is frozen, every parameter of fc
\* is trainable, and every U-Net parameter that is not also a classifier
\* parameter keeps the flag it carried when passed in (trainable if it was
\* passed in trainable); forward calls change no flag.
C4_UNetKeepsItsFlags ==
    cgu # None =>
        /\ Frozen(ClassifierParams)
        /\ Trainable(cgu.fc_params)
        /\ \A p \in cgu.unet.params \ ClassifierParams :
              cgu.requires_grad[p] = cguArgs.requires_grad[p]
        /\ DOMAIN cgu.requires_grad =
              ClassifierParams \cup cgu.unet.params \cup cgu.fc_params

C4_Witness ==
    /\ cgu # None /\ cguOut # None /\ cguOut.out.ok
    /\ ClassifierParams = {1} /\ cgu.unet.params = {2}
    /\ cguArgs.requires_grad[1] /\ ~cgu.requires_grad[1]
    /\ cguArgs.requires_grad[2] /\ cgu.requires_grad[2]
    /\ Trainable(cgu.fc_params)

\* C5: the projection has feature_channels * 12 * 12 outputs, and the
\* conditioning tensor reshaped from its output has shape exactly
\* (N, feature_channels, 12, 12), for every feature_channels and batch size.
C5_ConditioningShape ==
    cgu # None =>
        /\ cgu.fc.out_features = cguArgs.feature_channels * 12 * 12
        /\ cgu.fc.out_features \div (12 * 12) = cguArgs.feature_channels
        /\ (cguOut # None /\ cguOut.projected.ok) =>
              /\ cguOut.projected.shape =
                    <<cguOut.x.shape[1], cguArgs.feature_channels * 12 * 12>>
              /\ cguOut.cond.ok
              /\ cguOut.cond.shape =
                    <<cguOut.x.shape[1], cguArgs.feature_channels, 12, 12>>

C5_Witness ==
    /\ cgu # None /\ cguOut # None
    /\ cguArgs.feature_channels = 32 /\ cgu.fc.out_features = 4608
    /\ cguOut.x.shape[1] = 2
    /\ cguOut.projected.shape = <<2, 4608>>
    /\ cguOut.cond.shape = <<2, 32, 12, 12>>

\* C6: forward evaluates the classifier on the input image, then the
\* projection on the classifier's output, then the reshape, each once, then
\* calls the U-Net with the unmodified input image and the conditioning
\* tensor, and returns the U-Net's result: with a U-Net that returns its image
\* argument, the output is the input image tensor.
C6_ForwardOrder ==
    (cguOut # None /\ cguOut.out.ok) =>
        /\ cguOut.class_in = cguOut.x
        /\ cguOut.class_out.ops = <<"classifier">>
        /\ cguOut.projected.ops = <<"classifier", "Linear">>
        /\ cguOut.cond.ops = <<"classifier", "Linear", "view">>
        /\ cguOut.unet_image = cguOut.x
        /\ cguOut.out = cguOut.x

C6_Witness ==
    /\ cguOut # None /\ cguOut.out.ok
    /\ cgu.classifier.num_classes = 10
    /\ cgu.unet.cond_channels = 32 /\ cguArgs.feature_channels = 32
    /\ cguOut.x.shape = <<2, 3, 96, 96>>
    /\ cguOut.class_out.shape = <<2, 10>>
    /\ cguOut.cond.shape = <<2, 32, 12, 12>>
    /\ cguOut.out = cguOut.x
====
